---- MODULE Spec2Model ----
(***************************************************************************)
(* Expense tracker CLI (scripts/expense-tracker.js).                       *)
(*                                                                         *)
(* Every invocation of the program is one synchronous pass: load the       *)
(* expense file, validate, mutate the in-memory list, save the whole file. *)
(* Strings are sequences of one-character strings, so that trim,           *)
(* toLowerCase, padEnd, parseFloat and parseInt are computed as the        *)
(* JavaScript built-ins compute them.  Numbers are records: a finite       *)
(* number carries its value in tenths, NaN/Infinity are their own kinds,   *)
(* and JSON persistence turns the non-finite ones into null.               *)
(* showSummary and exportToCsv write neither data file and are left out.   *)
(***************************************************************************)
EXTENDS Integers, Sequences, FiniteSets, TLC

VARIABLES
    file,        \* expenses.json: [exists, data]
    budgetFile,  \* budgets.json:  [exists, data], data maps "<year>-<month>" to an amount
    now,         \* the clock: the current UTC calendar day
    last,        \* the invocation that has just exited: argv, the files before it, its output
    assigned,    \* history: identifiers reported by adds so far (tracked in SpecIds)
    procs,       \* SpecRace: the two concurrent invocations
    saves,       \* SpecRace: the order in which the invocations wrote the file
    file0,       \* SpecRace: the file before either invocation started
    pc           \* "shell": at the prompt; "exited": an invocation has just finished

vars == <<file, budgetFile, now, last, assigned, procs, saves, file0, pc>>

-----------------------------------------------------------------------------
(* Strings *)

\* JavaScript null, as getArgValue returns it; no string of characters equals it.
Null == <<"null-value">>

IsWhite(c) == c = " "

Digits == <<"0", "1", "2", "3", "4", "5", "6", "7", "8", "9">>

IsDigit(c) == \E i \in 1..Len(Digits) : Digits[i] = c

DigitVal(c) == (CHOOSE i \in 1..Len(Digits) : Digits[i] = c) - 1

Drop(s, n) == SubSeq(s, n + 1, Len(s))

Take(s, n) == SubSeq(s, 1, n)

StartsWith(s, p) == Len(s) >= Len(p) /\ Take(s, Len(p)) = p

\* String.prototype.trimStart / trimEnd / trim
RECURSIVE TrimStart(_)
TrimStart(s) == IF s # <<>> /\ IsWhite(Head(s)) THEN TrimStart(Tail(s)) ELSE s

RECURSIVE TrimEnd(_)
TrimEnd(s) == IF s # <<>> /\ IsWhite(s[Len(s)]) THEN TrimEnd(Take(s, Len(s) - 1)) ELSE s

Trim(s) == TrimEnd(TrimStart(s))

\* String.prototype.toLowerCase on the letters the inputs use
LowerChar(c) ==
    CASE c = "F" -> "f"
      [] c = "G" -> "g"
      [] c = "I" -> "i"
      [] c = "A" -> "a"
      [] c = "B" -> "b"
      [] OTHER -> c

ToLowerCase(s) == [i \in 1..Len(s) |-> LowerChar(s[i])]

\* String.prototype.padEnd(n): spaces appended up to length n
RECURSIVE PadEnd(_, _)
PadEnd(s, n) == IF Len(s) >= n THEN s ELSE PadEnd(Append(s, " "), n)

\* the length of the longest prefix of decimal digits
RECURSIVE DigitRun(_)
DigitRun(s) == IF s # <<>> /\ IsDigit(Head(s)) THEN 1 + DigitRun(Tail(s)) ELSE 0

\* the value of a string of decimal digits
RECURSIVE DigitsVal(_)
DigitsVal(s) == IF s = <<>> THEN 0 ELSE 10 * DigitsVal(Take(s, Len(s) - 1)) + DigitVal(s[Len(s)])

\* Number.prototype.toString of a non-negative integer
RECURSIVE IntToStr(_)
IntToStr(n) == IF n < 10 THEN <<Digits[n + 1]>> ELSE Append(IntToStr(n \div 10), Digits[(n % 10) + 1])

-----------------------------------------------------------------------------
(* Numbers *)

Num(tenths) == [k |-> "num", v |-> tenths]
NaN         == [k |-> "NaN", v |-> 0]
Infinity    == [k |-> "Infinity", v |-> 1]
JsonNull    == [k |-> "null", v |-> 0]

IsNaN(n) == n.k = "NaN"

\* n <= 0 for a number that is not NaN
LeqZero(n) == IF n.k = "Infinity" THEN n.v < 0 ELSE n.v <= 0

\* n > 0 as JavaScript evaluates it on a loaded value (null > 0 is false)
GtZero(n) ==
    CASE n.k = "num" -> n.v > 0
      [] n.k = "Infinity" -> n.v > 0
      [] OTHER -> FALSE

StrInfinity == <<"I", "n", "f", "i", "n", "i", "t", "y">>

\* the unsigned part of parseFloat: Infinity, digits[.digits], .digits; NaN otherwise.
\* The value is kept in tenths (the inputs carry at most one fractional digit);
\* exponents are not in the input alphabet.
ParseUnsigned(s) ==
    IF StartsWith(s, StrInfinity) THEN Infinity
    ELSE LET ni   == DigitRun(s)
             rest == Drop(s, ni)
             dot  == rest # <<>> /\ Head(rest) = "."
             nf   == IF dot THEN DigitRun(Tail(rest)) ELSE 0
             frac == IF nf > 0 THEN DigitVal(rest[2]) ELSE 0
         IN  IF ni = 0 /\ nf = 0 THEN NaN
             ELSE Num(10 * DigitsVal(Take(s, ni)) + frac)

Negate(n) == IF n.k = "NaN" THEN n ELSE [n EXCEPT !.v = -n.v]

\* Number.parseFloat: leading white space skipped, optional sign, longest numeric prefix
ParseFloat(s) ==
    IF s = Null THEN NaN
    ELSE LET t == TrimStart(s)
         IN  IF t # <<>> /\ Head(t) = "-" THEN Negate(ParseUnsigned(Tail(t)))
             ELSE IF t # <<>> /\ Head(t) = "+" THEN ParseUnsigned(Tail(t))
             ELSE ParseUnsigned(t)

\* Number.parseInt (radix 10): leading white space skipped, optional sign, digit prefix.
\* The result is a plain integer number (value in units, not tenths).
ParseInt(s) ==
    IF s = Null THEN NaN
    ELSE LET t   == TrimStart(s)
             neg == t # <<>> /\ Head(t) = "-"
             u   == IF t # <<>> /\ Head(t) \in {"-", "+"} THEN Tail(t) ELSE t
             n   == DigitRun(u)
         IN  IF n = 0 THEN NaN
             ELSE [k |-> "int", v |-> (IF neg THEN -1 ELSE 1) * DigitsVal(Take(u, n))]

\* Number.prototype.toString / template-literal rendering of an amount
NumToStr(n) ==
    CASE n.k = "null" -> <<"n", "u", "l", "l">>
      [] n.k = "NaN" -> <<"N", "a", "N">>
      [] n.k = "Infinity" -> IF n.v < 0 THEN <<"-">> \o StrInfinity ELSE StrInfinity
      [] OTHER ->
           LET a  == IF n.v < 0 THEN -n.v ELSE n.v
               ip == IntToStr(a \div 10)
               fp == IF a % 10 = 0 THEN <<>> ELSE <<".", Digits[(a % 10) + 1]>>
           IN  (IF n.v < 0 THEN <<"-">> ELSE <<>>) \o ip \o fp

\* JSON.stringify then JSON.parse of a number: non-finite numbers are written as null
JsonNumber(n) == IF n.k = "num" THEN n ELSE JsonNull

-----------------------------------------------------------------------------
(* Command line *)

CmdAdd    == <<"a", "d", "d">>
CmdUpdate == <<"u", "p", "d", "a", "t", "e">>
CmdDelete == <<"d", "e", "l", "e", "t", "e">>
CmdList   == <<"l", "i", "s", "t">>
CmdBudget == <<"b", "u", "d", "g", "e", "t">>

FlagDescription == <<"-", "-", "d", "e", "s", "c", "r", "i", "p", "t", "i", "o", "n">>
FlagAmount      == <<"-", "-", "a", "m", "o", "u", "n", "t">>
FlagCategory    == <<"-", "-", "c", "a", "t", "e", "g", "o", "r", "y">>
FlagId          == <<"-", "-", "i", "d">>
FlagMonth       == <<"-", "-", "m", "o", "n", "t", "h">>

General == <<"G", "e", "n", "e", "r", "a", "l">>

\* args.indexOf(flag), 0 when absent (positions are 1-based here)
IndexOf(args, flag) ==
    IF \E i \in 1..Len(args) : args[i] = flag
    THEN CHOOSE i \in 1..Len(args) : args[i] = flag /\ \A j \in 1..(i - 1) : args[j] # flag
    ELSE 0

getArgValue(args, flag) ==
    LET index == IndexOf(args, flag)
    IN  IF index # 0 /\ index + 1 <= Len(args) THEN args[index + 1] ELSE Null

\* JavaScript truthiness of a string-or-null
Truthy(s) == s # Null /\ s # <<>>

-----------------------------------------------------------------------------
(* Clock and dates *)

Pad2(n) == IF n < 10 THEN <<"0">> \o IntToStr(n) ELSE IntToStr(n)

\* date.toISOString().split("T")[0]
formatDate(date) == IntToStr(date.y) \o <<"-">> \o Pad2(date.m) \o <<"-">> \o Pad2(date.d)

\* new Date(expense.date).getFullYear() / getMonth() + 1, read in the zone the date was
\* written in
DateYear(d)  == DigitsVal(SubSeq(d, 1, 4))
DateMonth(d) == DigitsVal(SubSeq(d, 6, 7))

formatCurrency(amount) == <<"$">> \o NumToStr(amount)

-----------------------------------------------------------------------------
(* Record store *)

NoFile == [exists |-> FALSE, data |-> <<>>]

\* JSON.stringify followed by JSON.parse of the expense list
JsonExpenses(expenses) ==
    [i \in 1..Len(expenses) |-> [expenses[i] EXCEPT !.amount = JsonNumber(@)]]

\* rf: readFileSync (or the parse) throws
loadExpenses(f, rf) ==
    IF f.exists /\ ~rf THEN [list |-> f.data, err |-> <<>>]
    ELSE IF f.exists THEN [list |-> <<>>, err |-> <<"StoreReadFailure">>]
    ELSE [list |-> <<>>, err |-> <<>>]

\* faulty variant: the records of the file that the list does not hold are kept after it
saveExpenses_merge(f, expenses, wf) ==
    IF wf THEN [file |-> f, err |-> <<"StoreWriteFailure">>]
    ELSE [file |-> [exists |-> TRUE,
                    data |-> JsonExpenses(expenses) \o
                             SelectSeq(f.data, LAMBDA e : \A i \in 1..Len(expenses) : expenses[i] # e)],
          err |-> <<>>]

\* wf: writeFileSync throws before it has replaced the file
saveExpenses(f, expenses, wf) ==
    IF wf THEN [file |-> f, err |-> <<"StoreWriteFailure">>]
    ELSE [file |-> [exists |-> TRUE, data |-> JsonExpenses(expenses)], err |-> <<>>]

Ids(expenses) == {expenses[i].id : i \in 1..Len(expenses)}

MaxOf(S) == CHOOSE m \in S : \A x \in S : x <= m

\* faulty variant: the next identifier taken from the number of records
getNextId_length(expenses) == Len(expenses) + 1

\* faulty variant: the increment forgotten
getNextId_noIncrement(expenses) == IF Len(expenses) > 0 THEN MaxOf(Ids(expenses)) ELSE 1

getNextId(expenses) == IF Len(expenses) > 0 THEN MaxOf(Ids(expenses)) + 1 ELSE 1

\* validateAmount: [ok, num]
validateAmount(amount) ==
    LET num == ParseFloat(amount)
    IN  IF IsNaN(num) \/ LeqZero(num) THEN [ok |-> FALSE, num |-> num]
        ELSE [ok |-> TRUE, num |-> num]

\* expenses.findIndex((e) => e.id === Number.parseInt(id)), 0 when there is none
FindIndex(expenses, id) ==
    LET n == ParseInt(id)
        hit(i) == n.k = "int" /\ expenses[i].id = n.v
    IN  IF \E i \in 1..Len(expenses) : hit(i)
        THEN CHOOSE i \in 1..Len(expenses) : hit(i) /\ \A j \in 1..(i - 1) : ~hit(j)
        ELSE 0

\* expenses.splice(index, 1)
Splice1(expenses, index) ==
    [i \in 1..(Len(expenses) - 1) |-> IF i < index THEN expenses[i] ELSE expenses[i + 1]]

-----------------------------------------------------------------------------
(* Results of an invocation *)

\* a handler threw: main prints "Error: ..." on the error channel and exits with 1
Thrown(f, bf, errs, kind) ==
    [file |-> f, budgetFile |-> bf, exit |-> 1, err |-> Append(errs, kind),
     out |-> <<>>, id |-> 0, rows |-> <<>>]

\* a handler returned: the exit code is 0
Returned(f, bf, errs, out, id, rows) ==
    [file |-> f, budgetFile |-> bf, exit |-> 0, err |-> errs,
     out |-> out, id |-> id, rows |-> rows]

-----------------------------------------------------------------------------
(* Command handlers.  ld is what loadExpenses returned when the handler      *)
(* started, f the expense file when the handler saves (the same file in a     *)
(* sequential run), bf the budget file, wf whether the write fails.           *)

addExpense(ld, f, bf, args, clock, wf) ==
    LET expenses    == ld.list
        description == getArgValue(args, FlagDescription)
        amount      == getArgValue(args, FlagAmount)
        given       == getArgValue(args, FlagCategory)
        category    == IF Truthy(given) THEN given ELSE General
        validated   == validateAmount(amount)
        expense     == [id |-> getNextId(expenses),
                        date |-> formatDate(clock),
                        description |-> Trim(description),
                        amount |-> validated.num,
                        category |-> Trim(category)]
        saved       == saveExpenses(f, Append(expenses, expense), wf)
    IN  IF ~Truthy(description) THEN Thrown(f, bf, ld.err, "MissingArgument")
        ELSE IF ~Truthy(amount) THEN Thrown(f, bf, ld.err, "MissingArgument")
        ELSE IF ~validated.ok THEN Thrown(f, bf, ld.err, "InvalidAmount")
        ELSE Returned(saved.file, bf, ld.err \o saved.err, <<"added">>, expense.id, <<>>)

\* faulty variant: the list is saved as soon as the description is overwritten
updateExpense_savesEarly(ld, f, bf, args, clock, wf) ==
    LET expenses    == ld.list
        id          == getArgValue(args, FlagId)
        description == getArgValue(args, FlagDescription)
        amount      == getArgValue(args, FlagAmount)
        category    == getArgValue(args, FlagCategory)
        index       == FindIndex(expenses, id)
        validated   == validateAmount(amount)
        e0          == expenses[index]
        e1          == IF Truthy(description) THEN [e0 EXCEPT !.description = Trim(description)] ELSE e0
        e2          == IF Truthy(amount) THEN [e1 EXCEPT !.amount = validated.num] ELSE e1
        e3          == IF Truthy(category) THEN [e2 EXCEPT !.category = Trim(category)] ELSE e2
        saved       == saveExpenses(f, [expenses EXCEPT ![index] = e3], wf)
    IN  IF ~Truthy(id) THEN Thrown(f, bf, ld.err, "MissingArgument")
        ELSE IF index = 0 THEN Thrown(f, bf, ld.err, "NotFound")
        ELSE IF Truthy(amount) /\ ~validated.ok THEN Thrown(saveExpenses(f, [expenses EXCEPT ![index] = e1], wf).file, bf, ld.err,
                         "InvalidAmount")
        ELSE Returned(saved.file, bf, ld.err \o saved.err, <<"updated">>, 0, <<>>)

\* faulty variant: an update stamps the record with the current date
updateExpense_restamp(ld, f, bf, args, clock, wf) ==
    LET expenses    == ld.list
        id          == getArgValue(args, FlagId)
        description == getArgValue(args, FlagDescription)
        amount      == getArgValue(args, FlagAmount)
        category    == getArgValue(args, FlagCategory)
        index       == FindIndex(expenses, id)
        validated   == validateAmount(amount)
        e0          == expenses[index]
        e1          == IF Truthy(description) THEN [e0 EXCEPT !.description = Trim(description)] ELSE e0
        e2          == IF Truthy(amount) THEN [e1 EXCEPT !.amount = validated.num] ELSE e1
        e3          == IF Truthy(category) THEN [e2 EXCEPT !.category = Trim(category)] ELSE e2
        saved       == saveExpenses(f, [expenses EXCEPT ![index] = [e3 EXCEPT !.date = formatDate(clock)]], wf)
    IN  IF ~Truthy(id) THEN Thrown(f, bf, ld.err, "MissingArgument")
        ELSE IF index = 0 THEN Thrown(f, bf, ld.err, "NotFound")
        ELSE IF Truthy(amount) /\ ~validated.ok THEN Thrown(f, bf, ld.err, "InvalidAmount")
        ELSE Returned(saved.file, bf, ld.err \o saved.err, <<"updated">>, 0, <<>>)

updateExpense(ld, f, bf, args, clock, wf) ==
    LET expenses    == ld.list
        id          == getArgValue(args, FlagId)
        description == getArgValue(args, FlagDescription)
        amount      == getArgValue(args, FlagAmount)
        category    == getArgValue(args, FlagCategory)
        index       == FindIndex(expenses, id)
        validated   == validateAmount(amount)
        e0          == expenses[index]
        e1          == IF Truthy(description) THEN [e0 EXCEPT !.description = Trim(description)] ELSE e0
        e2          == IF Truthy(amount) THEN [e1 EXCEPT !.amount = validated.num] ELSE e1
        e3          == IF Truthy(category) THEN [e2 EXCEPT !.category = Trim(category)] ELSE e2
        saved       == saveExpenses(f, [expenses EXCEPT ![index] = e3], wf)
    IN  IF ~Truthy(id) THEN Thrown(f, bf, ld.err, "MissingArgument")
        ELSE IF index = 0 THEN Thrown(f, bf, ld.err, "NotFound")
        ELSE IF Truthy(amount) /\ ~validated.ok THEN Thrown(f, bf, ld.err, "InvalidAmount")
        ELSE Returned(saved.file, bf, ld.err \o saved.err, <<"updated">>, 0, <<>>)

\* faulty variant: expenses.splice(index) without the count
deleteExpense_spliceRest(ld, f, bf, args, clock, wf) ==
    LET expenses == ld.list
        id       == getArgValue(args, FlagId)
        index    == FindIndex(expenses, id)
        saved    == saveExpenses(f, Take(expenses, index - 1), wf)
    IN  IF ~Truthy(id) THEN Thrown(f, bf, ld.err, "MissingArgument")
        ELSE IF index = 0 THEN Thrown(f, bf, ld.err, "NotFound")
        ELSE Returned(saved.file, bf, ld.err \o saved.err, <<"deleted">>, 0, <<>>)

deleteExpense(ld, f, bf, args, clock, wf) ==
    LET expenses == ld.list
        id       == getArgValue(args, FlagId)
        index    == FindIndex(expenses, id)
        saved    == saveExpenses(f, Splice1(expenses, index), wf)
    IN  IF ~Truthy(id) THEN Thrown(f, bf, ld.err, "MissingArgument")
        ELSE IF index = 0 THEN Thrown(f, bf, ld.err, "NotFound")
        ELSE Returned(saved.file, bf, ld.err \o saved.err, <<"deleted">>, 0, <<>>)

\* one line of the table listExpenses prints
Row(expense) ==
    PadEnd(IntToStr(expense.id), 2) \o <<" ", " ">>
    \o PadEnd(expense.date, 10) \o <<" ">>
    \o PadEnd(expense.description, 26) \o <<" ">>
    \o PadEnd(formatCurrency(expense.amount), 9) \o <<" ">>
    \o expense.category

listExpenses(ld, f, bf, args) ==
    LET expenses == ld.list
        category == getArgValue(args, FlagCategory)
        filtered == IF Truthy(category)
                    THEN SelectSeq(expenses,
                           LAMBDA e : ToLowerCase(e.category) = ToLowerCase(category))
                    ELSE expenses
    IN  IF Len(filtered) = 0 THEN Returned(f, bf, ld.err, <<"no-expenses">>, 0, <<>>)
        ELSE Returned(f, bf, ld.err, <<"header">>, 0,
                      [i \in 1..Len(filtered) |-> Row(filtered[i])])

\* the value of a loaded amount in an addition (null counts as 0), in tenths
AddendOf(n) == IF n.k = "num" THEN n.v ELSE 0

RECURSIVE SumAmounts(_)
SumAmounts(expenses) ==
    IF expenses = <<>> THEN 0 ELSE AddendOf(Head(expenses).amount) + SumAmounts(Tail(expenses))

\* budgets[key] = budgetAmount, then JSON.stringify / JSON.parse
PutBudget(budgets, key, amount) ==
    [k \in (DOMAIN budgets) \cup {key} |->
        IF k = key THEN JsonNumber(amount) ELSE budgets[k]]

\* ld is the expense list loaded for the spending check; brf / bwf: reading / writing
\* budgets.json throws.  The read is inside try/catch, the write is not.
setBudget(ld, f, bf, args, clock, brf, bwf) ==
    LET month     == getArgValue(args, FlagMonth)
        amount    == getArgValue(args, FlagAmount)
        monthNum  == ParseInt(month)
        validated == validateAmount(amount)
        readErr   == IF bf.exists /\ brf THEN <<"StoreReadFailure">> ELSE <<>>
        budgets   == IF bf.exists /\ ~brf THEN bf.data ELSE <<>>
        key       == IntToStr(clock.y) \o <<"-">> \o IntToStr(monthNum.v)
        written   == [exists |-> TRUE, data |-> PutBudget(budgets, key, validated.num)]
        current   == SelectSeq(ld.list,
                       LAMBDA e : DateYear(e.date) = clock.y /\ DateMonth(e.date) = monthNum.v)
        spending  == SumAmounts(current)
        over      == validated.num.k = "num" /\ spending > validated.num.v
    IN  IF ~Truthy(month) \/ ~Truthy(amount) THEN Thrown(f, bf, <<>>, "MissingArgument")
        ELSE IF IsNaN(monthNum) \/ monthNum.v < 1 \/ monthNum.v > 12
             THEN Thrown(f, bf, <<>>, "InvalidMonth")
        ELSE IF ~validated.ok THEN Thrown(f, bf, <<>>, "InvalidAmount")
        ELSE IF bwf THEN Thrown(f, bf, readErr, "StoreWriteFailure")
        ELSE Returned(f, written, readErr \o ld.err,
                      <<"budget-set", IF over THEN "warning" ELSE "remaining">>, 0, <<>>)

\* what the process wrote on the error channel for an unknown command
UnknownCommand(f, bf) ==
    [file |-> f, budgetFile |-> bf, exit |-> 1, err |-> <<"UnknownCommand">>,
     out |-> <<"usage-hint">>, id |-> 0, rows |-> <<>>]

\* the dispatch of main on args[0]; env holds the failures the file system answers with
run(ld, f, bf, args, clock, env) ==
    LET command == args[1]
    IN  CASE command = CmdAdd    -> addExpense(ld, f, bf, args, clock, env.wf)
          [] command = CmdUpdate -> updateExpense(ld, f, bf, args, clock, env.wf)
          [] command = CmdDelete -> deleteExpense(ld, f, bf, args, clock, env.wf)
          [] command = CmdList   -> listExpenses(ld, f, bf, args)
          [] command = CmdBudget -> setBudget(ld, f, bf, args, clock, env.brf, env.bwf)
          [] OTHER               -> UnknownCommand(f, bf)

\* a sequential invocation: the handler loads and saves the same file
main(f, bf, args, clock, env) == run(loadExpenses(f, env.rf), f, bf, args, clock, env)

-----------------------------------------------------------------------------
(* Bounds and inputs *)

\* identifiers stay within 1..MaxId: an add that would assign a larger one is not taken
MaxId == 2

Days == {5, 6}

DescArgs   == {Null, <<" ", "a">>, <<"b">>}
AmountArgs == {Null, <<"0">>, <<"-", "1">>, <<"x">>, <<"1", ".", "5">>, <<"1", ".", "5", "x">>, StrInfinity}
CatArgs    == {Null, <<" ", "F">>}
CatFilters == {Null, <<"f">>, <<" ", "F">>, <<"g", "e", "n", "e", "r", "a", "l">>}
IdArgs     == {Null, <<"1">>, <<"2", "x">>}
MonthArgs  == {Null, <<"1", "1">>, <<"1", "3">>}

Opt(flag, v) == IF v = Null THEN <<>> ELSE <<flag, v>>

NoFaults == [rf |-> FALSE, wf |-> FALSE, brf |-> FALSE, bwf |-> FALSE]

-----------------------------------------------------------------------------
(* State machine *)

NoInvocation ==
    [argv |-> <<>>, before |-> NoFile, bbefore |-> NoFile,
     exit |-> 0, err |-> <<>>, out |-> <<>>, id |-> 0, rows |-> <<>>]

\* an invocation that ended with exit code 0 and wrote nothing on the error channel
Succeeded(l) == l.exit = 0 /\ l.err = <<>>

Command(l) == IF l.argv = <<>> THEN <<>> ELSE l.argv[1]

Idle == [pc |-> "idle", argv |-> <<>>, rf |-> FALSE, ld |-> [list |-> <<>>, err |-> <<>>],
         stale |-> FALSE, exit |-> 0, err |-> <<>>, saved |-> FALSE, wrote |-> NoFile]

Init ==
    /\ file = NoFile
    /\ budgetFile = NoFile
    /\ now = [y |-> 2026, m |-> 11, d |-> 5]
    /\ last = NoInvocation
    /\ assigned = {}
    /\ procs = [p \in {1, 2} |-> Idle]
    /\ saves = <<>>
    /\ file0 = NoFile
    /\ pc = "shell"

\* one whole invocation of the program with command line argv
Invoke(argv, env) ==
    \E r \in {main(file, budgetFile, argv, now, env)} :
        /\ file' = r.file
        /\ budgetFile' = r.budgetFile
        /\ last' = [argv |-> argv, before |-> file, bbefore |-> budgetFile,
                    exit |-> r.exit, err |-> r.err, out |-> r.out, id |-> r.id,
                    rows |-> r.rows]

AddCmd ==
    \E d \in DescArgs, a \in AmountArgs, c \in CatArgs, rf \in BOOLEAN, wf \in BOOLEAN :
        /\ getNextId(loadExpenses(file, rf).list) <= MaxId
        /\ Invoke(<<CmdAdd>> \o Opt(FlagDescription, d) \o Opt(FlagAmount, a)
                    \o Opt(FlagCategory, c),
                  [NoFaults EXCEPT !.rf = rf, !.wf = wf])

UpdateCmd ==
    \E i \in IdArgs, d \in DescArgs, a \in AmountArgs, c \in CatArgs,
       rf \in BOOLEAN, wf \in BOOLEAN :
        Invoke(<<CmdUpdate>> \o Opt(FlagId, i) \o Opt(FlagDescription, d)
                 \o Opt(FlagAmount, a) \o Opt(FlagCategory, c),
               [NoFaults EXCEPT !.rf = rf, !.wf = wf])

DeleteCmd ==
    \E i \in IdArgs, rf \in BOOLEAN, wf \in BOOLEAN :
        Invoke(<<CmdDelete>> \o Opt(FlagId, i), [NoFaults EXCEPT !.rf = rf, !.wf = wf])

ListCmd ==
    \E c \in CatFilters, rf \in BOOLEAN :
        Invoke(<<CmdList>> \o Opt(FlagCategory, c), [NoFaults EXCEPT !.rf = rf])

BudgetCmd ==
    \E m \in MonthArgs, a \in AmountArgs, rf \in BOOLEAN, brf \in BOOLEAN, bwf \in BOOLEAN :
        Invoke(<<CmdBudget>> \o Opt(FlagMonth, m) \o Opt(FlagAmount, a),
               [NoFaults EXCEPT !.rf = rf, !.brf = brf, !.bwf = bwf])

Add    == pc = "shell" /\ AddCmd /\ pc' = "exited" /\ UNCHANGED <<now, assigned, procs, saves, file0>>
Update == pc = "shell" /\ UpdateCmd /\ pc' = "exited" /\ UNCHANGED <<now, assigned, procs, saves, file0>>
Delete == pc = "shell" /\ DeleteCmd /\ pc' = "exited" /\ UNCHANGED <<now, assigned, procs, saves, file0>>
List   == pc = "shell" /\ ListCmd /\ pc' = "exited" /\ UNCHANGED <<now, assigned, procs, saves, file0>>
Budget == pc = "shell" /\ BudgetCmd /\ pc' = "exited" /\ UNCHANGED <<now, assigned, procs, saves, file0>>

\* the process has exited and its output has been read: back at the prompt
ReturnCmd ==
    /\ pc = "exited"
    /\ pc' = "shell"
    /\ last' = NoInvocation
    /\ UNCHANGED <<file, budgetFile, now, procs, saves, file0>>

Return == ReturnCmd /\ UNCHANGED assigned

\* the same, keeping the history of the identifiers that successful adds reported
ReturnIds ==
    /\ ReturnCmd
    /\ assigned' = IF Command(last) = CmdAdd /\ Succeeded(last)
                   THEN assigned \cup {last.id} ELSE assigned

\* midnight passes
Tick ==
    /\ pc = "shell"
    /\ now.d + 1 \in Days
    /\ now' = [now EXCEPT !.d = @ + 1]
    /\ UNCHANGED <<file, budgetFile, last, pc, assigned, procs, saves, file0>>

Next == Add \/ Update \/ Delete \/ List \/ Return \/ Tick

Spec == Init /\ [][Next]_vars

\* add and delete invocations only, with the history of assigned identifiers
NextIds == Add \/ Delete \/ ReturnIds

SpecIds == Init /\ [][NextIds]_vars

\* add, update and budget invocations
NextBudget == Add \/ Update \/ Budget \/ Return

SpecBudget == Init /\ [][NextBudget]_vars

-----------------------------------------------------------------------------
(* Two invocations running at the same time on the same expense file.  An     *)
(* invocation is synchronous, so it takes two steps: it loads the file when   *)
(* it starts, and it validates, changes its list and saves when it finishes.  *)

Clock0 == [y |-> 2026, m |-> 11, d |-> 5]

ArgvAdd(d, a, c) ==
    <<CmdAdd>> \o Opt(FlagDescription, d) \o Opt(FlagAmount, a) \o Opt(FlagCategory, c)

\* expense files that sequential adds leave behind
RaceFile1 == main(NoFile, NoFile, ArgvAdd(<<" ", "a">>, <<"1", ".", "5">>, Null), Clock0, NoFaults).file
RaceFile2 == main(RaceFile1, NoFile, ArgvAdd(<<"b">>, <<"1", ".", "5", "x">>, <<" ", "F">>), Clock0, NoFaults).file

RaceFiles == {NoFile, RaceFile1, RaceFile2}

RaceArgv ==
    { ArgvAdd(<<"b">>, <<"1", ".", "5">>, Null),
      ArgvAdd(<<" ", "a">>, StrInfinity, <<" ", "F">>),
      ArgvAdd(<<"b">>, <<"x">>, Null),
      <<CmdUpdate>> \o Opt(FlagId, <<"1">>) \o Opt(FlagDescription, <<"b">>),
      <<CmdUpdate>> \o Opt(FlagId, <<"2", "x">>) \o Opt(FlagAmount, <<"1", ".", "5">>),
      <<CmdDelete>> \o Opt(FlagId, <<"1">>),
      <<CmdDelete>> \o Opt(FlagId, <<"2", "x">>) }

Other(p) == 3 - p

InitRace ==
    /\ file0 \in RaceFiles
    /\ file = file0
    /\ budgetFile = NoFile
    /\ now = Clock0
    /\ last = NoInvocation
    /\ assigned = {}
    /\ procs = [p \in {1, 2} |-> Idle]
    /\ saves = <<>>
    /\ pc = "shell"

\* invocation p starts: loadExpenses
Start(p) ==
    /\ procs[p].pc = "idle"
    /\ \E argv \in RaceArgv, rf \in BOOLEAN :
          procs' = [procs EXCEPT ![p] = [Idle EXCEPT !.pc = "loaded", !.argv = argv, !.rf = rf,
                                                     !.ld = loadExpenses(file, rf)]]
    /\ UNCHANGED <<file, budgetFile, now, last, assigned, saves, file0, pc>>

\* invocation p runs the rest of its handler on the list it loaded, and exits
Finish(p) ==
    /\ procs[p].pc = "loaded"
    /\ \E wf \in BOOLEAN :
       \E r \in {run(procs[p].ld, file, budgetFile, procs[p].argv, now,
                     [NoFaults EXCEPT !.wf = wf])} :
          LET wrote == r.exit = 0 /\ ~wf
          IN  /\ file' = r.file
              /\ saves' = IF wrote THEN Append(saves, p) ELSE saves
              /\ procs' = [q \in {1, 2} |->
                    IF q = p
                    THEN [procs[p] EXCEPT !.pc = "done", !.exit = r.exit, !.err = r.err,
                                          !.saved = wrote,
                                          !.wrote = IF wrote THEN r.file ELSE NoFile]
                    ELSE IF wrote /\ procs[q].pc = "loaded"
                         THEN [procs[q] EXCEPT !.stale = TRUE]
                         ELSE procs[q]]
    /\ UNCHANGED <<budgetFile, now, last, assigned, file0, pc>>

Start1 == Start(1)
Start2 == Start(2)
Finish1 == Finish(1)
Finish2 == Finish(2)

NextRace == Start1 \/ Start2 \/ Finish1 \/ Finish2

SpecRace == InitRace /\ [][NextRace]_vars

-----------------------------------------------------------------------------
(* Properties *)

\* the last invocation ran command cmd and has just exited
Exited(cmd) == pc = "exited" /\ Command(last) = cmd

Arg(flag) == getArgValue(last.argv, flag)

Range(q) == {q[i] : i \in 1..Len(q)}

LastOf(q) == IF q = <<>> THEN "" ELSE q[Len(q)]

FaultSets == [rf : BOOLEAN, wf : BOOLEAN, brf : {FALSE}, bwf : {FALSE}]

\* C1: no two records of the persisted expense store have the same identifier
C1_UniqueIds ==
    \A i \in 1..Len(file.data) : \A j \in 1..Len(file.data) :
        i # j => file.data[i].id # file.data[j].id

\* two records are stored and one of them was just removed or rewritten
C1_Witness ==
    /\ pc = "exited" /\ Command(last) \in {CmdUpdate, CmdDelete} /\ Succeeded(last)
    /\ Len(last.before.data) = 2
    /\ file # last.before

\* C2 (as claimed): a successful add assigns an identifier greater than every identifier
\* an earlier successful add assigned
C2_NeverReassigned ==
    (Exited(CmdAdd) /\ Succeeded(last)) => \A i \in assigned : last.id > i

\* C2 (amended): a successful add assigns an identifier greater than every identifier
\* in the store it loaded: one more than their maximum, or 1 when the store is empty
C2_AboveExisting ==
    (Exited(CmdAdd) /\ Succeeded(last)) =>
        /\ \A i \in Ids(last.before.data) : last.id > i
        /\ last.id = IF last.before.data = <<>> THEN 1
                     ELSE MaxOf(Ids(last.before.data)) + 1
        /\ file.data[Len(file.data)].id = last.id

\* a successful add has assigned again the identifier of a deleted record
C2_Witness ==
    /\ Exited(CmdAdd) /\ Succeeded(last)
    /\ last.id \in assigned
    /\ last.before.data # <<>>

\* the whole text is a decimal number: optional sign, digits with at most one point
NumericText(s) ==
    LET t == Trim(s)
        u == IF t # <<>> /\ Head(t) \in {"-", "+"} THEN Tail(t) ELSE t
    IN  \/ u = StrInfinity
        \/ /\ \A i \in 1..Len(u) : IsDigit(u[i]) \/ u[i] = "."
           /\ Cardinality({i \in 1..Len(u) : u[i] = "."}) <= 1
           /\ \E i \in 1..Len(u) : IsDigit(u[i])

\* C3: an add whose amount is non-numeric or <= 0 fails with InvalidAmount, exit code 1,
\* and leaves the persisted expense store as it was
C3_InvalidAmountRejected ==
    (/\ Exited(CmdAdd)
     /\ Arg(FlagDescription) # Null
     /\ Arg(FlagAmount) # Null
     /\ (~NumericText(Arg(FlagAmount)) \/ LeqZero(ParseFloat(Arg(FlagAmount)))))
    => (last.exit = 1 /\ LastOf(last.err) = "InvalidAmount" /\ file = last.before)

\* C4: an update that reports an error leaves the persisted expense store unchanged
C4_FailedUpdateKeepsStore ==
    (Exited(CmdUpdate) /\ (last.exit = 1 \/ last.err # <<>>)) => file = last.before

\* an update of an existing record with a new description and an invalid amount
C4_Witness ==
    /\ Exited(CmdUpdate)
    /\ LastOf(last.err) = "InvalidAmount"
    /\ Arg(FlagDescription) # Null
    /\ \E i \in 1..Len(file.data) :
          /\ file.data[i].id = ParseInt(Arg(FlagId)).v
          /\ file.data[i].description # Trim(Arg(FlagDescription))

C6_WriteFailureNonFatal ==
    (pc = "exited" /\ "StoreWriteFailure" \in Range(last.err)) =>
        /\ file = last.before
        /\ budgetFile = last.bbefore
        /\ last.exit # 1

\* C8: every persisted expense amount and every persisted budget value is > 0
C8_PositiveAmounts ==
    /\ \A i \in 1..Len(file.data) : GtZero(file.data[i].amount)
    /\ \A k \in DOMAIN budgetFile.data : GtZero(budgetFile.data[k])

\* the category the last add was given ("General" when none was given)
AddedCategory == IF Arg(FlagCategory) = Null THEN General ELSE Arg(FlagCategory)

\* the line that shows the record of the last add: its identifier, today's date, its
\* description, its amount and its category.  The description and the category are
\* taken without the white space around them, the form in which a record keeps them.
AddedRow ==
    Row([id |-> last.id,
         date |-> formatDate(now),
         description |-> Trim(Arg(FlagDescription)),
         amount |-> ParseFloat(Arg(FlagAmount)),
         category |-> Trim(AddedCategory)])

\* no filter, and the category of the last add as given and in lower case
AddedFilters == {Null, Trim(AddedCategory), ToLowerCase(Trim(AddedCategory))}

\* C9: after a successful add, a list issued immediately afterwards, unfiltered or
\* filtered by the add's category in any letter case, shows the added record with the
\* add's identifier, description, amount, category and today's date
C9_AddThenList ==
    (Exited(CmdAdd) /\ Succeeded(last)) =>
        \A c \in AddedFilters :
            AddedRow \in Range(main(file, budgetFile, <<CmdList>> \o Opt(FlagCategory, c),
                                    now, NoFaults).rows)

\* C10: a successful update of identifier i changes only the record with identifier i,
\* and of it only the fields among description, amount and category that were supplied
C10_UpdateFrame ==
    (Exited(CmdUpdate) /\ Succeeded(last)) =>
        LET i == ParseInt(Arg(FlagId)).v
            b == last.before.data
            a == file.data
        IN  /\ Len(a) = Len(b)
            /\ \A j \in 1..Len(b) :
                  IF b[j].id # i THEN a[j] = b[j]
                  ELSE /\ a[j].id = b[j].id
                       /\ a[j].date = b[j].date
                       /\ Arg(FlagDescription) = Null => a[j].description = b[j].description
                       /\ Arg(FlagAmount) = Null => a[j].amount = b[j].amount
                       /\ Arg(FlagCategory) = Null => a[j].category = b[j].category

\* on a later day, one of two records got a new description and nothing else
C10_Witness ==
    /\ Exited(CmdUpdate) /\ Succeeded(last)
    /\ Len(file.data) = 2
    /\ Arg(FlagAmount) = Null /\ Arg(FlagCategory) = Null
    /\ \E j \in 1..2 :
          /\ file.data[j].description # last.before.data[j].description
          /\ file.data[j].date # formatDate(now)

AllDone == \A p \in {1, 2} : procs[p].pc = "done"

\* what invocation p alone leaves in the file when it runs on file f
Alone(p, f) ==
    main(f, budgetFile, procs[p].argv, now, [NoFaults EXCEPT !.rf = procs[p].rf]).file

\* C7: when two mutating invocations have run concurrently, the file is the list written
\* by the one that saved last; when that one had loaded before the other saved, the
\* other's change is lost: the file is what the last saver alone makes of the initial
\* file; otherwise the file is what the two make of it one after the other
C7_LastWriterWins ==
    (AllDone /\ saves # <<>>) =>
        LET q == saves[Len(saves)]
            o == Other(q)
        IN  /\ file = procs[q].wrote
            /\ procs[q].stale => file = Alone(q, file0)
            /\ (~procs[q].stale /\ procs[o].saved) => file = Alone(q, procs[o].wrote)

\* both invocations added a record to the same loaded list and both saved: the file
\* holds the record of the second saver only
C7_Witness ==
    /\ AllDone /\ Len(saves) = 2
    /\ procs[saves[2]].stale
    /\ procs[1].argv[1] = CmdAdd /\ procs[2].argv[1] = CmdAdd
    /\ procs[saves[1]].wrote # file
    /\ Len(file.data) = Len(file0.data) + 1

====
